---- MODULE Spec2Model ----
(***************************************************************************)
(* cover-letter-ai: the generator form of the web front end (its generate  *)
(* and preview state machines, the HTTP helper and the Content-Disposition *)
(* parser), the API's generation pipeline with its truncation retry, and   *)
(* the content sanitizer.                                                  *)
(*                                                                         *)
(* Text is a sequence of characters, so that trimming, splitting and       *)
(* header parsing are computed and not assumed.  The form's pass-through   *)
(* options (cv_pdf, language, tone, length) are appended to the request    *)
(* unmodified (GeneratorForm.onGenerate, lines 260, 263-265); the form     *)
(* model leaves them out and the pipeline draws `length` as its input.     *)
(***************************************************************************)
EXTENDS Integers, Sequences, FiniteSets, TLC

\* ------------------------------------------------------------------ bounds
\* Longest text typed into the job URL and job text inputs.
MaxLen == 1
\* Most object URLs one form instance is followed through: Generate is not
\* clicked again once that many documents were downloaded.
MaxUrls == 2

\* ------------------------------------------------------------------- text
None == [kind |-> "none"]

Chars == {" ", "x"}

RECURSIVE SeqsUpTo(_, _)
SeqsUpTo(S, n) ==
  IF n = 0 THEN {<<>>}
  ELSE LET shorter == SeqsUpTo(S, n - 1)
       IN  shorter \cup {Append(s, c) : s \in {t \in shorter : Len(t) = n - 1}, c \in S}

\* What the user can type into the job URL and job text inputs.
TextInputs == SeqsUpTo(Chars, MaxLen)
\* What the user can type into the target role input.
RoleInputs == {<<>>, <<" ">>, <<"r">>}

IsSpace(c) == c = " "

RECURSIVE TrimStart(_)
TrimStart(s) == IF s # <<>> /\ IsSpace(Head(s)) THEN TrimStart(Tail(s)) ELSE s

RECURSIVE TrimEnd(_)
TrimEnd(s) ==
  IF s # <<>> /\ IsSpace(s[Len(s)]) THEN TrimEnd(SubSeq(s, 1, Len(s) - 1)) ELSE s

\* String.prototype.trim
Trim(s) == TrimEnd(TrimStart(s))

\* ----------------------------------------------------------- HTTP responses
ErrStatuses == {400, 504}

\* The text of an error response's body: nothing, text that is no JSON, a JSON
\* object with a string "detail", or the API's error object
\* {error: {code, message, request_id}}.
BodyTexts ==
  { [kind |-> "empty"],
    [kind |-> "text"],
    [kind |-> "detail", detail |-> "bad request"],
    [kind |-> "apiError", message |-> "upstream failure"] }

\* A body is readable (res.text() resolves to it) or not (res.text() rejects).
Unreadable == [kind |-> "unreadable"]
Bodies == BodyTexts \cup {Unreadable}

\* Content-Disposition of an OK /v1/generate response, by the form the server
\* writes the filename in; None: the header is absent or not exposed.
FileNames == {<<>>, <<"M">>}
Dispositions ==
  {None, [kind |-> "disp", form |-> "bare", name |-> <<>>]}
    \cup {[kind |-> "disp", form |-> f, name |-> n] :
            f \in {"quoted", "token", "ext"}, n \in FileNames}

\* The header's value as a string of tokens.
HeaderValue(d) ==
  CASE d.form = "bare"   -> <<"attachment">>
    [] d.form = "quoted" -> <<"attachment", ";", "filename=", "\"">> \o d.name \o <<"\"">>
    [] d.form = "token"  -> <<"attachment", ";", "filename=">> \o d.name
    [] d.form = "ext"    -> <<"attachment", ";", "filename*=", "UTF-8''">> \o d.name

\* res.headers.get("Content-Disposition")
HeaderGet(d) == IF d = None THEN None ELSE [kind |-> "str", value |-> HeaderValue(d)]

\* ------------------------------------------- lib/contentDisposition.ts
Quote == "\""

\* The case-insensitive literal `filename=` of the pattern.
IsFilenameEq(t) == t \in {"filename=", "Filename=", "FILENAME="}

\* /filename="([^"]+)"/i matches at token i and its group ends before token j.
MatchAt(h, i, j) ==
  /\ i + 3 <= j /\ j <= Len(h)
  /\ IsFilenameEq(h[i]) /\ h[i + 1] = Quote /\ h[j] = Quote
  /\ \A k \in (i + 2)..(j - 1) : h[k] # Quote

parseFilenameFromContentDisposition(value) ==
  IF value = None \/ value.value = <<>> THEN None
  ELSE LET h == value.value
           hits == {i \in 1..Len(h) : \E j \in 1..Len(h) : MatchAt(h, i, j)}
       IN  IF hits = {} THEN None
           ELSE LET i == CHOOSE a \in hits : \A b \in hits : a <= b
                    j == CHOOSE b \in 1..Len(h) : MatchAt(h, i, b)
                IN  [kind |-> "str", value |-> SubSeq(h, i + 2, j - 1)]

\* -------------------------------------------------------------- lib/env.ts
\* Longest value of NEXT_PUBLIC_API_BASE_URL.
MaxEnvLen == 3

Str(v) == [kind |-> "str", value |-> v]

\* process.env: a variable is undefined (None) or a string, which may be empty.
\* Vercel sets VERCEL to "1".
Envs ==
  [NEXT_PUBLIC_API_BASE_URL : {None} \cup {Str(v) : v \in SeqsUpTo(Chars, MaxEnvLen)},
   VERCEL : {None, Str(<<>>), Str(<<"0">>), Str(<<"1">>)}]

\* The environment of `npm run dev` with no .env file.
LocalDev == [NEXT_PUBLIC_API_BASE_URL |-> None, VERCEL |-> None]

Production == <<"https://cover-letter-ai-production.up.railway.app">>
Localhost == <<"http://localhost:8000">>

\* Boolean(value) of a string or undefined.
Truthy(v) == v # None /\ Len(v.value) > 0

\* getApiBaseUrl that knows nothing of Vercel and returns the variable as it is
\* (the function of this name that lib/http.ts exports).
getApiBaseUrlLocalOnly(env) ==
  LET raw == env.NEXT_PUBLIC_API_BASE_URL
  IN  IF Truthy(raw) THEN raw.value ELSE Localhost

getApiBaseUrl(env) ==
  LET raw == IF env.NEXT_PUBLIC_API_BASE_URL = None THEN None
             ELSE Str(Trim(env.NEXT_PUBLIC_API_BASE_URL.value))
  IN  IF Truthy(raw) THEN raw.value
      ELSE IF Truthy(env.VERCEL) THEN Production
      ELSE Localhost

\* ------------------------------------------------------------ lib/http.ts
\* fetch() settles with an HTTP response or rejects (no connection, CORS).
NetworkFailure == [kind |-> "network"]
\* The body of an OK response is the document; one that cannot be read
\* (res.blob() rejects) is modelled without a header, which nothing reads.
Blob == [kind |-> "blob"]
OkResponses ==
  {[kind |-> "http", ok |-> TRUE, status |-> 200, disp |-> d, body |-> Blob] :
     d \in Dispositions}
    \cup {[kind |-> "http", ok |-> TRUE, status |-> 200, disp |-> None, body |-> Unreadable]}
ErrResponses ==
  {[kind |-> "http", ok |-> FALSE, status |-> s, disp |-> None, body |-> b] :
     s \in ErrStatuses, b \in Bodies}

HttpError(status, bodyText) ==
  [kind |-> "HttpError", status |-> status, bodyText |-> bodyText]
TypeError(message) == [kind |-> "Error", message |-> message]

Return(v) == [kind |-> "return", value |-> v]
Throw(e) == [kind |-> "throw", err |-> e]

\* res.text().catch(() => "")
BodyText(r) == IF r.body = Unreadable THEN [kind |-> "empty"] ELSE r.body

\* fetchOk without its test of res.ok.
fetchUnchecked(r) ==
  IF r.kind = "network" THEN Throw(TypeError("Failed to fetch")) ELSE Return(r)

fetchOk(r) ==
  IF r.kind = "network" THEN Throw(TypeError("Failed to fetch"))
  ELSE IF ~r.ok THEN Throw(HttpError(r.status, BodyText(r)))
  ELSE Return(r)

\* ------------------------------------------------ components/GeneratorForm
getErrorMessage(err) ==
  IF err.kind = "HttpError"
  THEN IF err.bodyText.kind = "detail" THEN <<err.bodyText.detail>>
       ELSE IF err.bodyText.kind # "empty"
            THEN <<"HTTP", ToString(err.status), ":", err.bodyText.kind>>
            ELSE <<"HTTP", ToString(err.status)>>
  ELSE IF err.kind = "Error" THEN <<err.message>>
  ELSE <<"An unknown error occurred.">>

VARIABLES
  jobUrl,          \* useState<string>: the Job URL input
  jobText,         \* useState<string>: the Job Text input
  targetRole,      \* useState<string>: the Target Role input
  state,           \* useState<GenerateState>
  previewState,    \* useState<PreviewState>
  downloadUrlRef,  \* useRef<string | null>: downloadUrlRef.current
  mounted,         \* the component is mounted
  genReqs,         \* /v1/generate requests sent and not yet settled
  prevReqs,        \* /v1/job/preview requests sent and not yet settled
  res,             \* what the fetch of the last onGenerate settled with
  created,         \* object URLs made by URL.createObjectURL: 1..created
  revoked,         \* object URLs given to URL.revokeObjectURL
  pipe,            \* the API's pipeline run for the request it is serving
  letter,          \* a LetterContent handed to the sanitizer
  clean,           \* sanitize(letter), once computed
  again,           \* sanitize(clean), once computed
  processEnv,      \* process.env: NEXT_PUBLIC_API_BASE_URL and VERCEL
  apiBaseUrl       \* useMemo(() => getApiBaseUrl(), []); None before the first render

formVars == <<jobUrl, jobText, targetRole, state, previewState, downloadUrlRef,
              mounted, genReqs, prevReqs, res, created, revoked>>

apiVars == <<pipe, letter, clean, again>>

envVars == <<processEnv, apiBaseUrl>>

Idle == [status |-> "idle"]
Loading == [status |-> "loading"]
Failed(message) == [status |-> "error", message |-> message]
Done(downloadUrl, filename) ==
  [status |-> "done", downloadUrl |-> downloadUrl, filename |-> filename]

\* The component's state after its first render, the inputs aside.
InitComponent ==
  /\ state = Idle /\ previewState = Idle
  /\ downloadUrlRef = None /\ mounted = TRUE
  /\ genReqs = <<>> /\ prevReqs = <<>> /\ res = None
  /\ created = 0 /\ revoked = {}

InitForm ==
  /\ jobUrl = <<>> /\ jobText = <<>> /\ targetRole = <<>>
  /\ InitComponent

\* The component's first render computes the API's base URL, once.
FirstRender ==
  /\ mounted /\ apiBaseUrl = None
  /\ apiBaseUrl' = Str(getApiBaseUrl(processEnv))
  /\ UNCHANGED <<formVars, apiVars, processEnv>>

\* A form rendered in local development.
InitEnv == processEnv = LocalDev /\ apiBaseUrl = Str(getApiBaseUrl(processEnv))

\* URL.createObjectURL(blob): a URL no earlier call returned.
createObjectURL == [kind |-> "blob", id |-> created + 1]

\* A state setter of an unmounted component changes nothing.
Set(next, current) == IF mounted THEN next ELSE current

\* form.append(name, value) when value is not empty
AppendIf(form, name, value) ==
  IF Len(value) > 0 THEN Append(form, <<name, value>>) ELSE form

\* form.has(name) and form.get(name)
Has(form, name) == \E i \in 1..Len(form) : form[i][1] = name
Field(form, name) == form[CHOOSE i \in 1..Len(form) : form[i][1] = name][2]

\* The FormData onGenerate builds.
GenerateForm ==
  AppendIf(AppendIf(AppendIf(<<>>, "job_url", Trim(jobUrl)),
                    "job_text", Trim(jobText)),
           "target_role", Trim(targetRole))

NoJobSource == Len(Trim(jobUrl)) = 0 /\ Len(Trim(jobText)) = 0

\* OnGenerate with the inputs tested for emptiness as typed, not trimmed.
OnGenerateUntrimmed ==
  /\ mounted /\ state.status # "loading"
  /\ IF Len(jobUrl) = 0 /\ Len(jobText) = 0
     THEN /\ state' = Failed(<<"Please provide either a Job URL or Job Text.">>)
          /\ UNCHANGED <<genReqs, revoked>>
     ELSE /\ created < MaxUrls
          /\ revoked' = IF state.status = "done"
                        THEN revoked \cup {state.downloadUrl} ELSE revoked
          /\ state' = Loading
          /\ genReqs' = Append(genReqs, GenerateForm)
  /\ res' = None
  /\ UNCHANGED <<jobUrl, jobText, targetRole, previewState, downloadUrlRef,
                 mounted, prevReqs, created, apiVars, envVars>>

\* OnGenerate behind a Generate button that is never disabled.
OnGenerateWhileLoading ==
  /\ mounted
  /\ IF NoJobSource
     THEN /\ state' = Failed(<<"Please provide either a Job URL or Job Text.">>)
          /\ UNCHANGED <<genReqs, revoked>>
     ELSE /\ created < MaxUrls
          /\ revoked' = IF state.status = "done"
                        THEN revoked \cup {state.downloadUrl} ELSE revoked
          /\ state' = Loading
          /\ genReqs' = Append(genReqs, GenerateForm)
  /\ res' = None
  /\ UNCHANGED <<jobUrl, jobText, targetRole, previewState, downloadUrlRef,
                 mounted, prevReqs, created, apiVars, envVars>>

\* The Generate button's click, up to the fetch: the button is disabled while a
\* request is loading.
OnGenerate ==
  /\ mounted /\ state.status # "loading"
  /\ IF NoJobSource
     THEN /\ state' = Failed(<<"Please provide either a Job URL or Job Text.">>)
          /\ UNCHANGED <<genReqs, revoked>>
     ELSE /\ created < MaxUrls
          /\ revoked' = IF state.status = "done"
                        THEN revoked \cup {state.downloadUrl} ELSE revoked
          /\ state' = Loading
          /\ genReqs' = Append(genReqs, GenerateForm)
  /\ res' = None
  /\ UNCHANGED <<jobUrl, jobText, targetRole, previewState, downloadUrlRef,
                 mounted, prevReqs, created, apiVars, envVars>>

Fallback == <<"Cover_Letter.docx">>

\* GenerateSettle that sends the request again when it failed.
GenerateSettleResending(r) ==
  /\ genReqs # <<>>
  /\ res' = r
  /\ LET got == fetchOk(r)
     IN  IF got.kind = "return" /\ got.value.body # Unreadable
         THEN /\ genReqs' = Tail(genReqs)
              /\ created' = created + 1
              /\ downloadUrlRef' = createObjectURL
              /\ state' = Set(Done(createObjectURL, Fallback), state)
         ELSE /\ genReqs' = Append(Tail(genReqs), Head(genReqs))
              /\ state' = Set(Failed(getErrorMessage(TypeError("retrying"))), state)
              /\ UNCHANGED <<created, downloadUrlRef>>
  /\ UNCHANGED <<jobUrl, jobText, targetRole, previewState, mounted, prevReqs,
                 revoked, envVars>>

\* GenerateSettle whose catch leaves the state as it is.
GenerateSettleSwallowing(r) ==
  /\ genReqs # <<>>
  /\ genReqs' = Tail(genReqs)
  /\ res' = r
  /\ LET got == fetchOk(r)
     IN  IF got.kind = "return" /\ got.value.body # Unreadable
         THEN LET downloadUrl == createObjectURL
                  parsed ==
                    parseFilenameFromContentDisposition(HeaderGet(got.value.disp))
                  filename == IF parsed = None THEN Fallback ELSE parsed.value
              IN  /\ created' = created + 1
                  /\ downloadUrlRef' = downloadUrl
                  /\ state' = Set(Done(downloadUrl, filename), state)
         ELSE UNCHANGED <<state, created, downloadUrlRef>>
  /\ UNCHANGED <<jobUrl, jobText, targetRole, previewState, mounted, prevReqs,
                 revoked, envVars>>

\* The rest of onGenerate, once the fetch of its request has settled with r.
GenerateSettle(r) ==
  /\ genReqs # <<>>
  /\ genReqs' = Tail(genReqs)
  /\ res' = r
  /\ LET got == fetchOk(r)
     IN  IF got.kind = "return" /\ got.value.body # Unreadable
         THEN LET downloadUrl == createObjectURL
                  parsed ==
                    parseFilenameFromContentDisposition(HeaderGet(got.value.disp))
                  filename == IF parsed = None THEN Fallback ELSE parsed.value
              IN  /\ created' = created + 1
                  /\ downloadUrlRef' = downloadUrl
                  /\ state' = Set(Done(downloadUrl, filename), state)
         ELSE LET err == IF got.kind = "throw" THEN got.err
                         ELSE TypeError("Failed to read body")
              IN  /\ state' = Set(Failed(getErrorMessage(err)), state)
                  /\ UNCHANGED <<created, downloadUrlRef>>
  /\ UNCHANGED <<jobUrl, jobText, targetRole, previewState, mounted, prevReqs,
                 revoked, envVars>>

\* The form alone: the request settles with whatever the network delivers.
GenerateResponds ==
  /\ \E r \in {NetworkFailure} \cup OkResponses \cup ErrResponses : GenerateSettle(r)
  /\ UNCHANGED apiVars

\* ------------------------------------------------------------- preview
\* The JSON of an OK /v1/job/preview response: not JSON, null, or an object
\* whose "role" is missing, null or a string.
PreviewData ==
  {[kind |-> "invalid"], [kind |-> "null"],
   [kind |-> "object", role |-> None], [kind |-> "object", role |-> [kind |-> "null"]]}
    \cup {[kind |-> "object", role |-> [kind |-> "str", value |-> v]] : v \in RoleInputs}
PreviewOkResponses ==
  {[kind |-> "http", ok |-> TRUE, status |-> 200, data |-> d] : d \in PreviewData}

\* autofillRoleFromUrl without its test of the job text.
autofillIgnoringJobText ==
  /\ mounted /\ previewState.status # "loading"
  /\ LET url == Trim(jobUrl)
     IN  IF Len(url) = 0
         THEN /\ previewState' = Failed(<<"Please enter a Job URL first.">>)
              /\ UNCHANGED prevReqs
         ELSE /\ previewState' = Loading
              /\ prevReqs' = Append(prevReqs, <<<<"job_url", url>>>>)
  /\ UNCHANGED <<jobUrl, jobText, targetRole, state, downloadUrlRef, mounted,
                 genReqs, res, created, revoked, apiVars, envVars>>

\* The Auto-detect button's click, up to the fetch: the button is disabled while
\* a preview is loading.
autofillRoleFromUrl ==
  /\ mounted /\ previewState.status # "loading"
  /\ LET url == Trim(jobUrl)
     IN  IF Len(url) = 0
         THEN /\ previewState' = Failed(<<"Please enter a Job URL first.">>)
              /\ UNCHANGED prevReqs
         ELSE IF Len(Trim(jobText)) > 0
         THEN /\ previewState' = Failed(<<"Job text is set - role will be derived from it.">>)
              /\ UNCHANGED prevReqs
         ELSE /\ previewState' = Loading
              /\ prevReqs' = Append(prevReqs, <<<<"job_url", url>>>>)
  /\ UNCHANGED <<jobUrl, jobText, targetRole, state, downloadUrlRef, mounted,
                 genReqs, res, created, revoked, apiVars, envVars>>

\* PreviewSettle with the role tested for emptiness as received, not trimmed.
PreviewSettleUntrimmed(r) ==
  /\ prevReqs # <<>>
  /\ prevReqs' = Tail(prevReqs)
  /\ LET got == fetchOk(r)
     IN  IF got.kind = "throw"
         THEN /\ previewState' = Set(Failed(getErrorMessage(got.err)), previewState)
              /\ UNCHANGED targetRole
         ELSE LET data == got.value.data
              IN  IF data.kind = "invalid"
                  THEN /\ previewState' =
                            Set(Failed(getErrorMessage(TypeError("Unexpected token"))),
                                previewState)
                       /\ UNCHANGED targetRole
                  ELSE IF /\ data.kind = "object"
                          /\ data.role.kind = "str"
                          /\ Len(data.role.value) > 0
                  THEN /\ targetRole' = Set(data.role.value, targetRole)
                       /\ previewState' = Set(Idle, previewState)
                  ELSE /\ previewState' =
                            Set(Failed(<<"Could not detect role from URL.">>), previewState)
                       /\ UNCHANGED targetRole
  /\ UNCHANGED <<jobUrl, jobText, state, downloadUrlRef, mounted, genReqs, res,
                 created, revoked, apiVars, envVars>>

\* PreviewSettle whose catch reports the error with setState, the setter of
\* the generate state.
PreviewSettleSharedError(r) ==
  /\ prevReqs # <<>>
  /\ prevReqs' = Tail(prevReqs)
  /\ LET got == fetchOk(r)
     IN  IF got.kind = "throw"
         THEN /\ state' = Set(Failed(getErrorMessage(got.err)), state)
              /\ UNCHANGED <<targetRole, previewState>>
         ELSE LET data == got.value.data
              IN  /\ UNCHANGED state
                  /\ IF data.kind = "invalid"
                     THEN /\ previewState' =
                               Set(Failed(getErrorMessage(TypeError("Unexpected token"))),
                                   previewState)
                          /\ UNCHANGED targetRole
                     ELSE IF /\ data.kind = "object"
                             /\ data.role.kind = "str"
                             /\ Len(Trim(data.role.value)) > 0
                     THEN /\ targetRole' = Set(Trim(data.role.value), targetRole)
                          /\ previewState' = Set(Idle, previewState)
                     ELSE /\ previewState' =
                               Set(Failed(<<"Could not detect role from URL.">>), previewState)
                          /\ UNCHANGED targetRole
  /\ UNCHANGED <<jobUrl, jobText, downloadUrlRef, mounted, genReqs, res,
                 created, revoked, apiVars, envVars>>

\* The rest of autofillRoleFromUrl, once the fetch has settled with r.
PreviewSettle(r) ==
  /\ prevReqs # <<>>
  /\ prevReqs' = Tail(prevReqs)
  /\ LET got == fetchOk(r)
     IN  IF got.kind = "throw"
         THEN /\ previewState' = Set(Failed(getErrorMessage(got.err)), previewState)
              /\ UNCHANGED targetRole
         ELSE LET data == got.value.data
              IN  IF data.kind = "invalid"
                  THEN /\ previewState' =
                            Set(Failed(getErrorMessage(TypeError("Unexpected token"))),
                                previewState)
                       /\ UNCHANGED targetRole
                  ELSE IF /\ data.kind = "object"
                          /\ data.role.kind = "str"
                          /\ Len(Trim(data.role.value)) > 0
                  THEN /\ targetRole' = Set(Trim(data.role.value), targetRole)
                       /\ previewState' = Set(Idle, previewState)
                  ELSE /\ previewState' =
                            Set(Failed(<<"Could not detect role from URL.">>), previewState)
                       /\ UNCHANGED targetRole
  /\ UNCHANGED <<jobUrl, jobText, state, downloadUrlRef, mounted, genReqs, res,
                 created, revoked, apiVars, envVars>>

PreviewResponds ==
  \E r \in {NetworkFailure} \cup PreviewOkResponses \cup ErrResponses : PreviewSettle(r)

\* ------------------------------------------------------- inputs, unmount
SetJobUrl ==
  /\ mounted
  /\ \E v \in TextInputs : jobUrl' = v
  /\ UNCHANGED <<jobText, targetRole, state, previewState, downloadUrlRef, mounted,
                 genReqs, prevReqs, res, created, revoked, apiVars, envVars>>

SetJobText ==
  /\ mounted
  /\ \E v \in TextInputs : jobText' = v
  /\ UNCHANGED <<jobUrl, targetRole, state, previewState, downloadUrlRef, mounted,
                 genReqs, prevReqs, res, created, revoked, apiVars, envVars>>

SetTargetRole ==
  /\ mounted
  /\ \E v \in RoleInputs : targetRole' = v
  /\ UNCHANGED <<jobUrl, jobText, state, previewState, downloadUrlRef, mounted,
                 genReqs, prevReqs, res, created, revoked, apiVars, envVars>>

\* The cleanup of the mount effect.
Unmount ==
  /\ mounted
  /\ mounted' = FALSE
  /\ revoked' = IF downloadUrlRef # None THEN revoked \cup {downloadUrlRef} ELSE revoked
  /\ UNCHANGED <<jobUrl, jobText, targetRole, state, previewState, downloadUrlRef,
                 genReqs, prevReqs, res, created, apiVars, envVars>>

vars == <<formVars, apiVars, envVars>>

\* ------------------------------------------------------ the API pipeline
\* apps/api (SourceTextResolver, LetterContentGenerator, DocumentRenderer and
\* the error boundary) as the specification describes it: sections 4.1, 4.2,
\* 4.4 and 7.
Lengths == {"short", "medium", "long"}

\* The token budget selected by `length`: short < medium < long.
Budget(length) ==
  CASE length = "short" -> 1 [] length = "medium" -> 2 [] length = "long" -> 3

\* The larger budget of the retry.
RetryBudget(budget) == budget + 1

\* How one structured-generation call can end.
CallResults == {"parsed", "truncated", "unparsable", "timeout"}

NoRun == [phase |-> "idle", source |-> "none", budget |-> 0, calls |-> <<>>,
          outcome |-> "none"]
Finished(run, outcome) == [run EXCEPT !.phase = "done", !.outcome = outcome]

\* A request reaches the API: it names a job source or is rejected.
PipelineAccept ==
  /\ pipe.phase = "idle" /\ genReqs # <<>>
  /\ LET req == Head(genReqs)
     IN  IF ~Has(req, "job_url") /\ ~Has(req, "job_text")
         THEN pipe' = Finished(NoRun, "ValidationError")
         ELSE \E length \in Lengths :
                pipe' = [NoRun EXCEPT
                           !.phase = "resolve",
                           !.source = IF Has(req, "job_text") THEN "text" ELSE "url",
                           !.budget = Budget(length)]
  /\ UNCHANGED <<formVars, envVars, letter, clean, again>>

\* SourceTextResolver: job text is used as it is, a URL is fetched.
ResolveSource ==
  /\ pipe.phase = "resolve"
  /\ \E fetched \in {"ok", "InvalidSourceError", "UpstreamFetchError",
                     "UpstreamTimeoutError"} :
       IF pipe.source = "text" \/ fetched = "ok"
       THEN pipe' = [pipe EXCEPT !.phase = "generate"]
       ELSE pipe' = Finished(pipe, fetched)
  /\ UNCHANGED <<formVars, envVars, letter, clean, again>>

\* GenerationCall that retries every truncated call (up to a third call).
GenerationCallRetrying ==
  /\ pipe.phase = "generate"
  /\ \E result \in CallResults :
       LET called == [pipe EXCEPT
                        !.calls = Append(@, [budget |-> pipe.budget, result |-> result])]
       IN  pipe' =
             CASE result = "parsed" -> [called EXCEPT !.phase = "render"]
               [] result = "truncated" ->
                    IF Len(pipe.calls) < 2
                    THEN [called EXCEPT !.budget = RetryBudget(@)]
                    ELSE Finished(called, "GenerationError")
               [] result = "unparsable" -> Finished(called, "GenerationError")
               [] result = "timeout" -> Finished(called, "UpstreamTimeoutError")
  /\ UNCHANGED <<formVars, envVars, letter, clean, again>>

\* LetterContentGenerator: one structured-generation call under pipe.budget; a
\* first call truncated by the budget is retried once with a larger one.
GenerationCall ==
  /\ pipe.phase = "generate"
  /\ \E result \in CallResults :
       LET called == [pipe EXCEPT
                        !.calls = Append(@, [budget |-> pipe.budget, result |-> result])]
       IN  pipe' =
             CASE result = "parsed" -> [called EXCEPT !.phase = "render"]
               [] result = "truncated" ->
                    IF Len(pipe.calls) = 0
                    THEN [called EXCEPT !.budget = RetryBudget(@)]
                    ELSE Finished(called, "GenerationError")
               [] result = "unparsable" -> Finished(called, "GenerationError")
               [] result = "timeout" -> Finished(called, "UpstreamTimeoutError")
  /\ UNCHANGED <<formVars, envVars, letter, clean, again>>

\* ContentSanitizer and DocumentRenderer: a document, or a RenderError.
Render ==
  /\ pipe.phase = "render"
  /\ \E rendered \in BOOLEAN :
       pipe' = Finished(pipe, IF rendered THEN "document" ELSE "RenderError")
  /\ UNCHANGED <<formVars, envVars, letter, clean, again>>

StatusOf(outcome) ==
  CASE outcome \in {"ValidationError", "InvalidSourceError"} -> 400
    [] outcome = "UpstreamTimeoutError" -> 504
    [] outcome \in {"UpstreamFetchError", "GenerationError"} -> 502
    [] outcome = "RenderError" -> 500

\* The response of a finished run: the document as an attachment, or the
\* structured error object.
PipelineResponses(outcome) ==
  IF outcome = "document"
  THEN {r \in OkResponses : r.body = Blob}
  ELSE {[kind |-> "http", ok |-> FALSE, status |-> StatusOf(outcome), disp |-> None,
         body |-> [kind |-> "apiError", message |-> outcome]]}

\* The run's response reaches the form, whose onGenerate resumes.
Respond ==
  /\ pipe.phase = "done"
  /\ \E r \in PipelineResponses(pipe.outcome) : GenerateSettle(r)
  /\ pipe' = NoRun
  /\ UNCHANGED <<letter, clean, again>>

\* ---------------------------------------------------- ContentSanitizer
\* apps/api/app/services/llm_letter.py as section 4.3 of the specification
\* describes it.  A paragraph or an address line is a sequence of words and
\* punctuation marks.
Punctuation == {","}
EmailWords == {"a@b.ch"}
AddressWords == {"bahnhofstrasse", "zuerich"}
NameWords == {"anna"}

Lower(w) == IF w = "ACME" THEN "acme" ELSE w

Front(q) == SubSeq(q, 1, Len(q) - 1)
Last(q) == q[Len(q)]

\* The contact-block pattern: an email address, a phone number or a fragment of
\* a postal address.
IsContact(p) == \E i \in 1..Len(p) : p[i] \in EmailWords \cup AddressWords

\* A line that is nothing but a name.
IsNameLine(p) == p # <<>> /\ \A i \in 1..Len(p) : p[i] \in NameWords

RECURSIVE TrimPunctStart(_)
TrimPunctStart(p) ==
  IF p # <<>> /\ Head(p) \in Punctuation THEN TrimPunctStart(Tail(p)) ELSE p

RECURSIVE TrimPunctEnd(_)
TrimPunctEnd(p) ==
  IF p # <<>> /\ Last(p) \in Punctuation THEN TrimPunctEnd(Front(p)) ELSE p

\* A line as it is compared: punctuation trimmed, case ignored.
Canonical(p) ==
  LET t == TrimPunctEnd(TrimPunctStart(p)) IN [i \in 1..Len(t) |-> Lower(t[i])]

\* The paragraph duplicates a line of the recipient block.
IsRecipientLine(p, recipientBlock) ==
  /\ Canonical(p) # <<>>
  /\ \E i \in 1..Len(recipientBlock) : Canonical(recipientBlock[i]) = Canonical(p)

\* Step 1: the trailing contact paragraphs, and a name line right above them.
RECURSIVE DropTrailingContact(_)
DropTrailingContact(body) ==
  IF body # <<>> /\ IsContact(Last(body)) THEN DropTrailingContact(Front(body))
  ELSE body

\* DropContactBlock that drops the contact paragraphs wherever they are.
DropEveryContact(body) == SelectSeq(body, LAMBDA p : ~IsContact(p))

DropContactBlock(body) ==
  LET kept == DropTrailingContact(body)
  IN  IF Len(kept) < Len(body) /\ kept # <<>> /\ IsNameLine(Last(kept))
      THEN Front(kept) ELSE kept

\* DropTrailingRecipient that looks at the last paragraph only.
DropLastRecipient(body, recipientBlock) ==
  IF body # <<>> /\ IsRecipientLine(Last(body), recipientBlock)
  THEN Front(body) ELSE body

\* Step 2: the trailing paragraphs that duplicate recipient lines.
RECURSIVE DropTrailingRecipient(_, _)
DropTrailingRecipient(body, recipientBlock) ==
  IF body # <<>> /\ IsRecipientLine(Last(body), recipientBlock)
  THEN DropTrailingRecipient(Front(body), recipientBlock)
  ELSE body

\* The comma-separated parts of a line, the empty ones dropped.
RECURSIVE Parts(_, _)
Parts(rest, part) ==
  LET done == IF part = <<>> THEN <<>> ELSE <<part>>
  IN  IF rest = <<>> THEN done
      ELSE IF Head(rest) \in Punctuation THEN done \o Parts(Tail(rest), <<>>)
      ELSE Parts(Tail(rest), Append(part, Head(rest)))

RECURSIVE AllParts(_)
AllParts(lines) ==
  IF lines = <<>> THEN <<>> ELSE Parts(Head(lines), <<>>) \o AllParts(Tail(lines))

\* Step 3: at most 3 clean lines.
NormalizeRecipient(recipientBlock) ==
  LET parts == AllParts(recipientBlock)
  IN  SubSeq(parts, 1, IF Len(parts) < 3 THEN Len(parts) ELSE 3)

\* The fields of a LetterContent the sanitizer reads or writes; it hands the
\* others on as they are.
sanitize(x) ==
  [recipientBlock |-> NormalizeRecipient(x.recipientBlock),
   bodyParagraphs |->
     DropTrailingRecipient(DropContactBlock(x.bodyParagraphs), x.recipientBlock)]

\* Most paragraphs of a generated body.
MaxBody == 3

Paragraphs ==
  {<<"gerne">>, <<"a@b.ch">>, <<"anna">>, <<"ACME">>, <<"bahnhofstrasse", ",">>}
RecipientBlocks ==
  { <<<<"acme">>, <<"bahnhofstrasse">>, <<"zuerich">>>>,
    <<<<"acme", ",", "bahnhofstrasse", ",", "zuerich", ",">>>>,
    <<<<"acme", ",">>, <<"bahnhofstrasse">>>> }
Letters ==
  {[recipientBlock |-> r, bodyParagraphs |-> b] :
     r \in RecipientBlocks, b \in SeqsUpTo(Paragraphs, MaxBody) \ {<<>>}}

Sanitize ==
  /\ letter # None /\ clean = None
  /\ clean' = sanitize(letter)
  /\ UNCHANGED <<formVars, envVars, pipe, letter, again>>

SanitizeAgain ==
  /\ clean # None /\ again = None
  /\ again' = sanitize(clean)
  /\ UNCHANGED <<formVars, envVars, pipe, letter, clean>>

\* ------------------------------------------------------- specifications
InitApi == pipe = NoRun /\ letter = None /\ clean = None /\ again = None

\* The form, with the network and the API as its environment.
Init == InitForm /\ InitApi /\ InitEnv

Next ==
  \/ SetJobUrl
  \/ SetJobText
  \/ SetTargetRole
  \/ OnGenerate
  \/ GenerateResponds
  \/ autofillRoleFromUrl
  \/ PreviewResponds
  \/ Unmount

Spec == Init /\ [][Next]_vars

\* A filled-in form whose Generate requests the API pipeline serves.
InitPipeline ==
  /\ jobUrl \in TextInputs /\ jobText \in TextInputs /\ targetRole \in RoleInputs
  /\ InitComponent /\ InitApi /\ InitEnv

NextPipeline ==
  \/ OnGenerate
  \/ PipelineAccept
  \/ ResolveSource
  \/ GenerationCall
  \/ Render
  \/ Respond

SpecPipeline == InitPipeline /\ [][NextPipeline]_vars

\* The filled-in form and the pipeline, each stage of a run taking its step (a
\* call that does not return ends as a timeout), the response reaching the form,
\* and the user free to leave the page.
NextLive == NextPipeline \/ Unmount

PipelineFairness ==
  /\ WF_vars(PipelineAccept) /\ WF_vars(ResolveSource) /\ WF_vars(GenerationCall)
  /\ WF_vars(Render) /\ WF_vars(Respond)

SpecLive == InitPipeline /\ [][NextLive]_vars /\ PipelineFairness

\* The form about to render for the first time, in any environment.
InitMount == InitForm /\ InitApi /\ processEnv \in Envs /\ apiBaseUrl = None

NextMount == FirstRender

SpecMount == InitMount /\ [][NextMount]_vars

\* The sanitizer applied, and applied again, to any LetterContent.
InitSanitize ==
  /\ InitForm /\ InitEnv /\ pipe = NoRun
  /\ letter \in Letters /\ clean = None /\ again = None

NextSanitize == Sanitize \/ SanitizeAgain

SpecSanitize == InitSanitize /\ [][NextSanitize]_vars

\* ------------------------------------------------------------- claims
NonEmptyField(form, name) == Has(form, name) /\ Len(Field(form, name)) > 0

NoSourceMessage == <<"Please provide either a Job URL or Job Text.">>
JobTextSetMessage == <<"Job text is set - role will be derived from it.">>

\* C1: a Generate click with the job URL and the job text both empty after
\* trimming puts the form in the error state with a message and sends no
\* request to /v1/generate.
C1_NoSourceIsValidationError ==
  [][(NoJobSource /\ OnGenerate) =>
       /\ state'.status = "error"
       /\ state'.message = NoSourceMessage
       /\ genReqs' = genReqs]_vars

\* A click with a job URL of blanks only was refused.
C1_Witness ==
  /\ state = Failed(NoSourceMessage)
  /\ jobUrl # <<>> /\ NoJobSource /\ genReqs = <<>> /\ res = None

\* C2 as stated: every request sent to /v1/generate carries exactly one
\* non-empty job source.
C2_ExactlyOneSource ==
  \A i \in 1..Len(genReqs) :
    NonEmptyField(genReqs[i], "job_url") # NonEmptyField(genReqs[i], "job_text")

\* C2 as amended: every request sent to /v1/generate carries at least one
\* non-empty job source, the trimmed job URL or the trimmed job text, and no
\* empty one; it carries both when both inputs are filled in.
C2_AtLeastOneSource ==
  \A i \in 1..Len(genReqs) :
    /\ NonEmptyField(genReqs[i], "job_url") \/ NonEmptyField(genReqs[i], "job_text")
    /\ \A name \in {"job_url", "job_text"} :
         Has(genReqs[i], name) => NonEmptyField(genReqs[i], name)

\* A request is in flight that carries a job URL and a job text.
C2_Witness ==
  /\ genReqs # <<>>
  /\ NonEmptyField(genReqs[1], "job_url") /\ NonEmptyField(genReqs[1], "job_text")

\* C3 as stated: whenever the job URL is not empty (after trimming), a click on
\* Auto-detect sends the /v1/job/preview request for it, whatever the job text.
C3_PreviewWheneverUrl ==
  [][(Len(Trim(jobUrl)) > 0 /\ autofillRoleFromUrl) =>
       /\ Len(prevReqs') = Len(prevReqs) + 1
       /\ previewState'.status = "loading"]_vars

\* C3 as amended: a click on Auto-detect sends the /v1/job/preview request, for
\* the trimmed job URL, exactly when the job URL is not empty and the job text
\* is empty, both after trimming; with a job URL and a job text it sends no
\* request and the preview fails with "Job text is set".
C3_PreviewOnlyWithoutJobText ==
  [][autofillRoleFromUrl =>
       IF Len(Trim(jobUrl)) > 0 /\ Len(Trim(jobText)) = 0
       THEN /\ prevReqs' = Append(prevReqs, <<<<"job_url", Trim(jobUrl)>>>>)
            /\ previewState' = Loading
       ELSE /\ prevReqs' = prevReqs
            /\ previewState'.status = "error"
            /\ (Len(Trim(jobUrl)) > 0 => previewState'.message = JobTextSetMessage)]_vars

\* Auto-detect was clicked with a job URL and a job text, and refused.
C3_Witness ==
  /\ previewState = Failed(JobTextSetMessage)
  /\ Len(Trim(jobUrl)) > 0 /\ Len(Trim(jobText)) > 0 /\ prevReqs = <<>>

\* The filename a Content-Disposition header carries, in any of its forms;
\* empty when it carries none.
HeaderFilename(d) == IF d = None THEN <<>> ELSE d.name

IsOkResponse(r) == r # None /\ r.kind = "http" /\ r.ok

\* C9: in the done state the download's filename is the one the response's
\* Content-Disposition header carries, and "Cover_Letter.docx" only when the
\* header is absent or carries no filename.
C9_FilenameIsTheHeaders ==
  (state.status = "done" /\ IsOkResponse(res)) =>
    state.filename =
      IF HeaderFilename(res.disp) # <<>> THEN HeaderFilename(res.disp) ELSE Fallback

\* C10: an object URL is made and the done state reached only when a
\* /v1/generate request settles with an OK response; when it settles with
\* a non-OK response or a network failure no object URL is made and the form,
\* while mounted, is left in the error state.
C10_DoneOnlyAfterOk ==
  [][/\ (created' # created \/ (state'.status = "done" /\ state' # state)) =>
          (IsOkResponse(res') /\ genReqs # <<>> /\ genReqs' = Tail(genReqs))
     /\ (Len(genReqs') < Len(genReqs) /\ ~IsOkResponse(res')) =>
          /\ created' = created /\ downloadUrlRef' = downloadUrlRef
          /\ mounted => state'.status = "error"]_vars

\* A request was answered with a non-OK status and the form shows the error.
C10_Witness ==
  /\ res # None /\ res.kind = "http" /\ ~res.ok
  /\ mounted /\ state.status = "error" /\ created = 0

\* C4: a generation call truncated under budget B is retried exactly once,
\* with a budget B' > B; when the retry is truncated too the run ends with
\* GenerationError; one request makes at most two generation calls.
C4_OneRetryOnTruncation ==
  LET calls == pipe.calls
  IN  /\ Len(calls) <= 2
      /\ Len(calls) = 2 =>
           calls[1].result = "truncated" /\ calls[2].budget > calls[1].budget
      /\ (Len(calls) = 1 /\ calls[1].result = "truncated") =>
           (pipe.phase = "generate" /\ pipe.budget > calls[1].budget)
      /\ (Len(calls) = 2 /\ calls[2].result = "truncated") =>
           (pipe.phase = "done" /\ pipe.outcome = "GenerationError")

\* Both calls of a run were truncated and the run ended with GenerationError.
C4_Witness ==
  /\ Len(pipe.calls) = 2
  /\ pipe.calls[1].result = "truncated" /\ pipe.calls[2].result = "truncated"
  /\ pipe.outcome = "GenerationError"

\* C5: a generation call that is unparsable for another reason than truncation,
\* or that times out, is the run's last call and ends it with GenerationError
\* or UpstreamTimeoutError; a second call is made only after a truncated first
\* one; and the form sends one /v1/generate request per Generate click and none
\* when the request failed.
C5_OnlyTruncationRetried ==
  /\ \A i \in 1..Len(pipe.calls) :
       LET call == pipe.calls[i]
       IN  call.result \in {"unparsable", "timeout"} =>
             /\ i = Len(pipe.calls) /\ pipe.phase = "done"
             /\ pipe.outcome = IF call.result = "timeout"
                               THEN "UpstreamTimeoutError" ELSE "GenerationError"
  /\ Len(pipe.calls) > 1 => pipe.calls[1].result = "truncated"
  /\ Len(genReqs) = IF state.status = "loading" THEN 1 ELSE 0
  /\ (res # None /\ ~IsOkResponse(res)) => (genReqs = <<>> /\ state.status = "error")

\* A request whose only generation call timed out was answered with 504 and
\* the form shows the error, with no request in flight.
C5_Witness ==
  /\ res # None /\ res.kind = "http" /\ res.status = 504
  /\ res.body.kind = "apiError" /\ res.body.message = "UpstreamTimeoutError"
  /\ state.status = "error" /\ genReqs = <<>> /\ pipe = NoRun

\* C6: sanitize(sanitize(x)) = sanitize(x) for every LetterContent x.
C6_SanitizeIdempotent == again # None => again = clean

IsPrefix(p, q) == Len(p) <= Len(q) /\ \A i \in 1..Len(p) : p[i] = q[i]

\* Paragraph j of the body matches a pattern of the sanitizer: the contact-block
\* pattern (a contact paragraph, or the name line right above one) or a line of
\* the recipient block.
Matches(x, j) ==
  LET body == x.bodyParagraphs
  IN  \/ IsContact(body[j])
      \/ IsNameLine(body[j]) /\ j < Len(body) /\ IsContact(body[j + 1])
      \/ IsRecipientLine(body[j], x.recipientBlock)

\* C7: the sanitized body is a prefix of the body, and a paragraph - a contact
\* paragraph in particular - that has a non-matching paragraph after it, or is
\* one, stays.
C7_OnlyTrailingRemoved ==
  clean # None =>
    /\ IsPrefix(clean.bodyParagraphs, letter.bodyParagraphs)
    /\ \A i \in 1..Len(letter.bodyParagraphs) :
         (\E j \in i..Len(letter.bodyParagraphs) : ~Matches(letter, j)) =>
           i <= Len(clean.bodyParagraphs)

\* A body lost its trailing paragraphs and kept a contact paragraph that has a
\* non-matching paragraph after it.
C7_Witness ==
  /\ clean # None
  /\ Len(clean.bodyParagraphs) < Len(letter.bodyParagraphs)
  /\ \E i \in 1..Len(clean.bodyParagraphs) :
       /\ IsContact(letter.bodyParagraphs[i])
       /\ \E j \in (i + 1)..Len(letter.bodyParagraphs) : ~Matches(letter, j)

RequestFailed(r) == r.kind = "network" \/ ~r.ok \/ r.body = Unreadable

\* The human message of a structured error body: the "detail" of
\* {detail: ...}, the "message" of {error: {code, message, request_id}}.
HumanMessage(body) == IF body.kind = "detail" THEN <<body.detail>> ELSE <<body.message>>

\* C11: a /v1/generate request that failed leaves the mounted form in the error
\* state with a non-empty message, and when the error body is a structured
\* error object carrying a human message, that message is the one shown.
C11_HumanMessageShown ==
  (mounted /\ res # None /\ RequestFailed(res)) =>
    /\ state.status = "error"
    /\ state.message # <<>> /\ \A i \in 1..Len(state.message) : state.message[i] # ""
    /\ (res.kind = "http" /\ ~res.ok /\ res.body.kind \in {"detail", "apiError"}) =>
         state.message = HumanMessage(res.body)

NoRoleMessage == <<"Could not detect role from URL.">>

\* The response of /v1/job/preview carries a role: a string that is not empty
\* after trimming.
PreviewGoodRole(r) ==
  /\ r.kind = "http" /\ r.ok
  /\ r.data.kind = "object" /\ r.data.role.kind = "str"
  /\ Len(Trim(r.data.role.value)) > 0

\* C12: when a preview request of the mounted form settles, targetRole is
\* overwritten (with the trimmed role) and previewState returns to idle only
\* when the response's role is a string that is not empty after trimming; when
\* the role is null, empty or missing, or the request failed, targetRole is left
\* as it is and previewState becomes error.
C12_RoleOnlyFromGoodPreview ==
  [][(mounted /\ prevReqs # <<>> /\ prevReqs' = Tail(prevReqs)) =>
       \A r \in {NetworkFailure} \cup PreviewOkResponses \cup ErrResponses :
         PreviewSettle(r) =>
           IF PreviewGoodRole(r)
           THEN targetRole' = Trim(r.data.role.value) /\ previewState' = Idle
           ELSE targetRole' = targetRole /\ previewState'.status = "error"]_vars

\* A preview came back without a usable role: the preview failed and the target
\* role the user had typed is still there.
C12_Witness ==
  /\ mounted /\ previewState = Failed(NoRoleMessage)
  /\ targetRole = <<"r">> /\ prevReqs = <<>>

\* C13: once onGenerate has set the status to loading, the form - for as long
\* as it is mounted - reaches done or error: every stage behind the request
\* ends, by a result or by its timeout, and the response settles the request.
C13_LoadingEnds ==
  (mounted /\ state.status = "loading") ~>
    (state.status \in {"done", "error"} \/ ~mounted)

\* A request behind which a call timed out was answered with 504 and the form
\* left the loading state for the error state.
C13_Witness ==
  /\ mounted /\ genReqs = <<>> /\ pipe = NoRun
  /\ state = Failed(<<"HTTP", "504", ":", "apiError">>)

\* The front end runs on Vercel: VERCEL is set, to a value that is not empty.
OnVercel == Truthy(processEnv.VERCEL)

\* NEXT_PUBLIC_API_BASE_URL is missing or blank.
NoBaseUrl ==
  \/ processEnv.NEXT_PUBLIC_API_BASE_URL = None
  \/ \A i \in 1..Len(processEnv.NEXT_PUBLIC_API_BASE_URL.value) :
       IsSpace(processEnv.NEXT_PUBLIC_API_BASE_URL.value[i])

\* C14: on Vercel the base URL is never localhost: it is the trimmed
\* NEXT_PUBLIC_API_BASE_URL when that is not blank and the production API
\* domain otherwise; localhost is the base URL only when the variable is missing
\* or blank and VERCEL is not set.
C14_NoLocalhostOnVercel ==
  apiBaseUrl # None =>
    /\ OnVercel => apiBaseUrl.value # Localhost
    /\ ~NoBaseUrl =>
         /\ apiBaseUrl.value # <<>>
         /\ ~IsSpace(Head(apiBaseUrl.value))
         /\ ~IsSpace(apiBaseUrl.value[Len(apiBaseUrl.value)])
         /\ \E i, j \in 0..MaxEnvLen + 1 :
              processEnv.NEXT_PUBLIC_API_BASE_URL.value =
                [k \in 1..i |-> " "] \o apiBaseUrl.value \o [k \in 1..j |-> " "]
    /\ (OnVercel /\ NoBaseUrl) => apiBaseUrl.value = Production
    /\ apiBaseUrl.value = Localhost => (NoBaseUrl /\ ~OnVercel)

\* On Vercel, with a blank NEXT_PUBLIC_API_BASE_URL, the form rendered with the
\* production API domain as its base URL.
C14_Witness ==
  /\ apiBaseUrl = Str(Production) /\ OnVercel
  /\ processEnv.NEXT_PUBLIC_API_BASE_URL = Str(<<" ">>)

\* C15: at most one /v1/generate request of the form is in flight at any time:
\* a request is issued only from a state other than loading and with none in
\* flight, and while one is in flight the mounted form is loading.
C15_OneGenerateInFlight ==
  [][/\ Len(genReqs') <= 1
     /\ Len(genReqs') > Len(genReqs) => (state.status # "loading" /\ genReqs = <<>>)
     /\ (mounted' /\ genReqs' # <<>>) => state'.status = "loading"]_vars

\* A second request is in flight, issued after the first one's document
\* arrived.
C15_Witness ==
  /\ Len(genReqs) = 1 /\ state.status = "loading" /\ created = 1 /\ mounted

\* The object URLs made so far.
ObjectUrls == {[kind |-> "blob", id |-> n] : n \in 1..created}

\* C16: when the form unmounts with no request in flight, every object URL that
\* onGenerate made is revoked; and while the mounted form is in the done state
\* its downloadUrl is not revoked.
C16_NoObjectUrlLeak ==
  [][/\ (mounted /\ ~mounted' /\ genReqs = <<>>) => ObjectUrls \subseteq revoked'
     /\ (mounted' /\ state'.status = "done") => state'.downloadUrl \notin revoked']_vars

\* C17: the Auto-detect click and the preview's response leave the generate
\* state (status, downloadUrl, filename) and the request in flight as they are;
\* the Generate click and its response leave previewState and targetRole as
\* they are; and a request carries the target role of the moment of the click
\* (trimmed, and no target_role when that is empty), whatever happens to
\* targetRole afterwards.
C17_MachinesIndependent ==
  [][/\ (autofillRoleFromUrl \/ (prevReqs # <<>> /\ prevReqs' = Tail(prevReqs))) =>
          (state' = state /\ genReqs' = genReqs)
     /\ (OnGenerate \/ (genReqs # <<>> /\ genReqs' = Tail(genReqs))) =>
          (previewState' = previewState /\ targetRole' = targetRole
             /\ prevReqs' = prevReqs)
     /\ Len(genReqs') > Len(genReqs) =>
          LET req == genReqs'[Len(genReqs')]
          IN  IF Len(Trim(targetRole)) > 0
              THEN NonEmptyField(req, "target_role")
                     /\ Field(req, "target_role") = Trim(targetRole)
              ELSE ~Has(req, "target_role")
     /\ targetRole' # targetRole => genReqs' = genReqs]_vars

\* A preview and a generate request were in flight together; the preview's
\* failure is shown next to the generate request, which is still loading and
\* carries the role typed before the click.
C17_Witness ==
  /\ state = Loading /\ Len(genReqs) = 1 /\ prevReqs = <<>>
  /\ previewState.status = "error" /\ previewState.message # NoRoleMessage
  /\ previewState.message[1] = "HTTP"
  /\ NonEmptyField(genReqs[1], "target_role") /\ targetRole = <<>>

====
